---- MODULE Spec2Model ----
(***************************************************************************)
(* Model of the Slack events webhook of proposal-search (src/main.py).     *)
(*                                                                         *)
(* slack_events is an async FastAPI endpoint.  Its only await is           *)
(* `await request.body()`; every later call (json.loads, the Slack         *)
(* WebClient, the Gemini client) is synchronous, so once a handler has its *)
(* body it keeps the event loop until it returns or raises.  `running` is  *)
(* the handler holding the event loop (0 when the loop is free).           *)
(***************************************************************************)
EXTENDS Integers, Sequences, FiniteSets, TLC

\* ---------------------------------------------------------------- bounds
MaxHandlers == 2      \* handler tasks alive at the same time
MaxRequests == 2      \* requests delivered in one process lifetime
MaxChunks == 2        \* grounding chunks of one backend response
MaxSources == 6       \* source titles of one answer in the formatter specification
MaxTextLen == 3       \* tokens of an event text in the focused specifications
Clock == 1000         \* int(time.time()) when a request is verified, in seconds

Handlers == 1..MaxHandlers

\* ---------------------------------------------------------- configuration
WINDOW == 300                       \* 60 * 5
SLACK_SIGNING_SECRET == "secret"    \* config.SLACK_SIGNING_SECRET
OtherSecret == "not-the-secret"     \* any key that is not the signing secret

\* One item of raw.split(","): a name ("" when there is none) with or without
\* whitespace around it.
Item(name, padded) == [name |-> name, padded |-> padded]
Strip(item) == item.name            \* item.strip()

\* [item.strip() for item in raw.split(",") if item.strip()]
_parse_csv_env(raw) ==
    LET kept == SelectSeq(raw, LAMBDA item : Strip(item) # "")
    IN  [i \in DOMAIN kept |-> Strip(kept[i])]

\* Values of the ALLOWED_CHANNELS environment variable, split at the commas:
\* "" (also the default when unset), "C1" and " C1 , ,C1".
AllowedChannelEnvs ==
    {<<Item("", FALSE)>>,
     <<Item("C1", FALSE)>>,
     <<Item("C1", TRUE), Item("", TRUE), Item("C1", FALSE)>>}

ToSet(seq) == {seq[i] : i \in DOMAIN seq}

\* ALLOWED_CHANNELS = set(config.ALLOWED_CHANNELS)
AllowedChannelConfigs == {ToSet(_parse_csv_env(raw)) : raw \in AllowedChannelEnvs}

\* ------------------------------------------------------------------ inputs
None == "None"                      \* Python's None (an absent JSON key)
EventIds == {"Ev1", None}           \* data.get("event_id"): an id, or absent
EventTypes == {"app_mention", "message"}
Channels == {"C1", "C2"}
Mention == "<@U123>"                \* a token matching <@[A-Z0-9]+>
Space == " "
Word == "find"
Texts == {<<>>, <<Mention>>, <<Mention, Space, Word>>}
Keyword == "proposal"               \* one of config.BOT_TRIGGER_KEYWORDS
Challenges == {"ch1", "ch2"}

\* time.time() is a float: times are counted in ticks of 1/Tick second, and a
\* reading is a whole number of seconds or has a fraction.
Tick == 2
Seconds(n) == n * Tick
Nows == {Seconds(Clock), Seconds(Clock) + 1}
Now == Seconds(Clock) + 1           \* the reading in the main specification

\* The X-Slack-Request-Timestamp header: a decimal integer, one too large for
\* a float (10^309 and more), or a string int() rejects ("" when the header is
\* missing).
IntHeader(n) == [isint |-> TRUE, huge |-> FALSE, val |-> n]
HugeHeader == [isint |-> TRUE, huge |-> TRUE, val |-> 0]
MissingHeader == [isint |-> FALSE, huge |-> FALSE, val |-> 0]
TsHeaders == {IntHeader(Clock), IntHeader(Clock - WINDOW - 1), MissingHeader}

\* utf8: whether body.decode('utf-8') succeeds (json.loads also reads UTF-16).
NoBody == [kind |-> "malformed", challenge |-> None, event_id |-> None,
           etype |-> None, channel |-> None, text |-> <<>>, utf8 |-> TRUE]
Bodies ==
    {NoBody}
    \cup {[NoBody EXCEPT !.kind = "url_verification", !.challenge = c] : c \in Challenges}
    \cup {[NoBody EXCEPT !.kind = "other"]}
    \cup {[kind |-> "event_callback", challenge |-> None, event_id |-> id,
           etype |-> et, channel |-> ch, text |-> tx, utf8 |-> TRUE] :
            id \in EventIds, et \in EventTypes, ch \in Channels, tx \in Texts}

\* 'v0=' + hmac.new(secret, f"v0:{timestamp}:{body}", sha256).hexdigest(),
\* with HMAC-SHA256 taken as collision free.
Mac(secret, ts, body) == <<"v0=", secret, "v0:", ts, body>>
NoSignature == <<>>                 \* headers.get("X-Slack-Signature", "")
NonAsciiSignature == <<"v0=", "non-ascii">>   \* a header value such as 'v0=\xe9'
IsAscii(s) == s # NonAsciiSignature

\* A request and the reading of time.time() when it is verified.
Requests ==
    {[body |-> b, ts |-> t, sig |-> s, now |-> Now] :
        b \in Bodies, t \in TsHeaders,
        s \in {"good", "forged", "missing"}}

SignatureHeader(r) ==
    CASE r.sig = "good" -> Mac(SLACK_SIGNING_SECRET, r.ts, r.body)
      [] r.sig = "forged" -> Mac(OtherSecret, r.ts, r.body)
      [] r.sig = "nonascii" -> NonAsciiSignature
      [] OTHER -> NoSignature

NoRequest == [body |-> NoBody, ts |-> MissingHeader, sig |-> "missing", now |-> Now]

VARIABLES
    processed_events,   \* the module-level set of seen event ids
    ALLOWED_CHANNELS,   \* set(config.ALLOWED_CHANNELS), fixed at import
    running,            \* the handler holding the event loop, 0 if none
    arrived,            \* requests delivered so far
    pc,                 \* each handler's position in slack_events
    req,                \* each handler's request
    status,             \* each handler's HTTP status (0 until it ends)
    exit,               \* where each handler returned or raised ("" until it ends)
    response,           \* each handler's response body
    trace,              \* each handler's side effects so far, in order
    question, answer, sources, formatted_msg, err,   \* handler locals
    accepts,            \* per event id: handlers that passed the duplicate check
    outbox              \* per event id: the Slack calls Slack accepted, in order

vars == <<processed_events, ALLOWED_CHANNELS, running, arrived, pc, req, status,
          exit, response, trace, question, answer, sources, formatted_msg, err,
          accepts, outbox>>

\* ------------------------------------------------------- backend responses
AnswerText == "answer text"
BackendError == "backend down"          \* str(e) of a backend exception
NoContext == [ctx |-> FALSE, title |-> None]     \* chunk without retrieved_context
Untitled == [ctx |-> TRUE, title |-> None]       \* retrieved_context without title
Titled(t) == [ctx |-> TRUE, title |-> t]
Chunks == {NoContext, Untitled, Titled("DocX")}

SeqsUpTo(S, n) == UNION {[1..k -> S] : k \in 0..n}

\* A response without a readable part (blocked or empty): generate_content
\* returns it and reading response.text raises.
BlockedResponse == [text |-> None, metadata |-> FALSE, chunks |-> <<>>]
Readable(resp) == resp.text # None

\* What model.generate_content(question) returns when it does not raise:
\* the text, and the grounding chunks (none when the metadata is absent).
GroundedResponses ==
    {[text |-> AnswerText, metadata |-> TRUE, chunks |-> cs] : cs \in SeqsUpTo(Chunks, MaxChunks)}
    \cup {[text |-> AnswerText, metadata |-> FALSE, chunks |-> <<>>]}
    \cup {BlockedResponse}

TextAnswer(t) == [kind |-> "text", text |-> t]
ErrorAnswer(e) == [kind |-> "error", text |-> e]   \* f"오류가 발생했습니다: {str(e)}"
NoAnswer == [kind |-> None, text |-> None]

\* The outcomes of one Slack Web API call: it returns, raises SlackApiError
\* (Slack refused the call), or raises another exception (transport).
SlackOutcomes == {"ok", "SlackApiError", "Exception"}

\* ------------------------------------------------------------ pure functions
Abs(x) == IF x < 0 THEN -x ELSE x
Min(a, b) == IF a < b THEN a ELSE b

\* hmac.compare_digest on two str: TypeError when one of them has a non-ASCII
\* character, else whether they are equal.
compare_digest(a, b) ==
    IF ~IsAscii(a) \/ ~IsAscii(b) THEN "TypeError"
    ELSE IF a = b THEN "True" ELSE "False"

\* verify_slack_signature without its freshness test.
VerifyWithoutFreshness(r, now) ==
    IF ~r.ts.isint THEN "ValueError"
    ELSE IF r.ts.huge THEN "OverflowError"
    ELSE IF ~r.body.utf8 THEN "UnicodeDecodeError"
    ELSE compare_digest(Mac(SLACK_SIGNING_SECRET, r.ts, r.body), SignatureHeader(r))

\* The result of verify_slack_signature, "True" or "False", or the exception
\* it raises: ValueError from int(timestamp), OverflowError from the float
\* subtraction (line 77), UnicodeDecodeError from body.decode (line 80),
\* TypeError from hmac.compare_digest (line 88).  now is in ticks.
verify_slack_signature(r, now) ==
    IF ~r.ts.isint THEN "ValueError"
    ELSE IF r.ts.huge THEN "OverflowError"
    ELSE IF Abs(now - Seconds(r.ts.val)) > Seconds(WINDOW) THEN "False"
    ELSE IF ~r.body.utf8 THEN "UnicodeDecodeError"
    ELSE compare_digest(Mac(SLACK_SIGNING_SECRET, r.ts, r.body), SignatureHeader(r))

IsMentionToken(tok) == tok = Mention
IsSpace(tok) == tok = Space

RECURSIVE LStrip(_)
LStrip(s) == IF s # <<>> /\ IsSpace(Head(s)) THEN LStrip(Tail(s)) ELSE s
RECURSIVE RStrip(_)
RStrip(s) == IF s # <<>> /\ IsSpace(s[Len(s)]) THEN RStrip(SubSeq(s, 1, Len(s) - 1)) ELSE s

\* extract_query_from_mention without the .strip().
ExtractWithoutStrip(text) == SelectSeq(text, LAMBDA tok : ~IsMentionToken(tok))

\* re.sub(r'<@[A-Z0-9]+>', '', text).strip()
extract_query_from_mention(text) ==
    RStrip(LStrip(SelectSeq(text, LAMBDA tok : ~IsMentionToken(tok))))

\* The titles of the chunks that have a retrieved_context ('Unknown' for a
\* context without title), as a set.
SourceSet(resp) ==
    IF ~resp.metadata THEN {}
    ELSE {IF resp.chunks[i].title = None THEN "Unknown" ELSE resp.chunks[i].title :
            i \in {j \in DOMAIN resp.chunks : resp.chunks[j].ctx}}

\* list(source_set): the elements once each, in an order Python does not fix.
Orderings(S) ==
    {s \in [1..Cardinality(S) -> S] : \A i, j \in DOMAIN s : i # j => s[i] # s[j]}

SOURCE_LIMIT == 5
Section(label, content) == [type |-> "section", label |-> label, content |-> content]
Divider == [type |-> "divider", label |-> None, content |-> <<>>]

\* format_slack_message with sources[:6].
FormatSixSources(a, srcs, q) ==
    <<Section("question", <<q>>), Divider, Section("answer", <<a>>)>>
    \o (IF srcs # <<>>
        THEN <<Section("sources", SubSeq(srcs, 1, Min(SOURCE_LIMIT + 1, Len(srcs))))>>
        ELSE <<>>)

\* format_slack_message without the source section.
FormatWithoutSources(a, srcs, q) ==
    <<Section("question", <<q>>), Divider, Section("answer", <<a>>)>>

format_slack_message(a, srcs, q) ==
    <<Section("question", <<q>>), Divider, Section("answer", <<a>>)>>
    \o (IF srcs # <<>>
        THEN <<Section("sources", SubSeq(srcs, 1, Min(SOURCE_LIMIT, Len(srcs))))>>
        ELSE <<>>)

\* query_without_file_search letting the exception of its call through.
FallbackReraises(e) == [raised |-> TRUE, answer |-> NoAnswer, sources |-> <<>>]

\* query_without_file_search when its generate_content raises e: the except
\* clause returns the error string and no sources.
FallbackOnError(e) == [raised |-> FALSE, answer |-> ErrorAnswer(e), sources |-> <<>>]

\* ------------------------------------------------------------- event loop
\* slack_events with one more await, between the duplicate check and the insert.
AwaitsBeforeInsert(label) == label \in {"read_body", "dedupe_add"}

\* The labels at which slack_events awaits (gives the event loop back).
AwaitsAt(label) == label = "read_body"

\* Handler h may take its step at `label`: a suspended task is resumed only by
\* a free event loop, a running one continues without interruption.
CanStep(h, label) ==
    /\ pc[h] = label
    /\ IF AwaitsAt(label) THEN running = 0 ELSE running = h

Goto(h, label) ==
    /\ pc' = [pc EXCEPT ![h] = label]
    /\ running' = IF AwaitsAt(label) THEN 0 ELSE h

OkResponse == [key |-> "status", value |-> "ok"]
ChallengeResponse(c) == [key |-> "challenge", value |-> c]
ForbiddenResponse == [key |-> "detail", value |-> "Invalid signature"]
ServerErrorResponse == [key |-> "detail", value |-> "Internal Server Error"]
NoResponse == [key |-> None, value |-> None]

\* The handler returns or raises: FastAPI turns the result into the response.
Finish(h, where, code, resp) ==
    /\ exit' = [exit EXCEPT ![h] = where]
    /\ status' = [status EXCEPT ![h] = code]
    /\ response' = [response EXCEPT ![h] = resp]
    /\ Goto(h, "done")

Continue(h, label) ==
    /\ Goto(h, label)
    /\ UNCHANGED <<status, exit, response>>

Effect(op, ok) == [op |-> op, ok |-> ok]
Record(h, op, ok) == trace' = [trace EXCEPT ![h] = Append(@, Effect(op, ok))]

EventId(h) == req[h].body.event_id
Bump(f, id) == [f EXCEPT ![id] = @ + 1]

\* One call of the Slack Web API by handler h: the attempt goes to the handler's
\* trace, and to the event's outbox when Slack accepts it.
SlackCall(h, op, out) ==
    /\ Record(h, op, out = "ok")
    /\ outbox' = IF out = "ok"
                 THEN [outbox EXCEPT ![EventId(h)] = Append(@, op)]
                 ELSE outbox

\* slack_events without the handshake test before the verification.
NeverUrlVerification(data) == FALSE

\* data.get("type") == "url_verification"
IsUrlVerification(data) == data.kind = "url_verification"

\* A membership test that lets events without an event_id through.
AlreadyProcessedUnlessAbsent(id) == id # None /\ id \in processed_events

\* slack_events without the membership test.
NeverProcessed(id) == FALSE

\* event_id in processed_events
AlreadyProcessed(id) == id \in processed_events

\* A registry that keeps only the last id.
RegisteredLastOnly(id) == {id}

\* slack_events without the insert.
NotRegistered(id) == processed_events

\* processed_events.add(event_id)
Registered(id) == processed_events \cup {id}

config == <<ALLOWED_CHANNELS>>
locals == <<question, answer, sources, formatted_msg, err>>
history == <<accepts, outbox>>

Init ==
    /\ processed_events = {}
    /\ ALLOWED_CHANNELS \in AllowedChannelConfigs
    /\ running = 0
    /\ arrived = 0
    /\ pc = [h \in Handlers |-> "idle"]
    /\ req = [h \in Handlers |-> NoRequest]
    /\ status = [h \in Handlers |-> 0]
    /\ exit = [h \in Handlers |-> ""]
    /\ response = [h \in Handlers |-> NoResponse]
    /\ trace = [h \in Handlers |-> <<>>]
    /\ question = [h \in Handlers |-> <<>>]
    /\ answer = [h \in Handlers |-> NoAnswer]
    /\ sources = [h \in Handlers |-> <<>>]
    /\ formatted_msg = [h \in Handlers |-> <<>>]
    /\ err = [h \in Handlers |-> None]
    /\ accepts = [id \in EventIds |-> 0]
    /\ outbox = [id \in EventIds |-> <<>>]

\* ---------------------------------------------------------------- actions
\* The server accepts a request and starts slack_events for it; the coroutine
\* runs up to `await request.body()`.  Slots are taken in order.
Arrive(h) ==
    /\ running = 0
    /\ pc[h] = "idle"
    /\ \A g \in Handlers : g < h => pc[g] # "idle"
    /\ arrived < MaxRequests
    /\ arrived' = arrived + 1
    /\ pc' = [pc EXCEPT ![h] = "read_body"]
    /\ UNCHANGED <<processed_events, config, running, req, status, exit, response,
                   trace, locals, history>>

\* body = await request.body()
ReadBody(h) ==
    /\ CanStep(h, "read_body")
    /\ \E r \in Requests : req' = [req EXCEPT ![h] = r]
    /\ Continue(h, "parse")
    /\ UNCHANGED <<processed_events, config, arrived, trace, locals, history>>

\* data = json.loads(body); the url_verification challenge is answered here.
Parse(h) ==
    /\ CanStep(h, "parse")
    /\ CASE req[h].body.kind = "malformed" ->
              Finish(h, "json_error", 500, ServerErrorResponse)
         [] IsUrlVerification(req[h].body) ->
              Finish(h, "challenge", 200, ChallengeResponse(req[h].body.challenge))
         [] OTHER -> Continue(h, "verify")
    /\ UNCHANGED <<processed_events, config, arrived, req, trace, locals, history>>

\* if not verify_slack_signature(request, body): raise HTTPException(403)
Verify(h) ==
    /\ CanStep(h, "verify")
    /\ LET v == verify_slack_signature(req[h], req[h].now) IN
        CASE v = "True" ->
               /\ Continue(h, "dispatch")
               /\ Record(h, "verify_signature", TRUE)
          [] v = "False" ->
               /\ Finish(h, "forbidden", 403, ForbiddenResponse)
               /\ Record(h, "verify_signature", FALSE)
          [] OTHER ->
               /\ Finish(h, IF v \in {"ValueError", "OverflowError"}
                            THEN "timestamp_error" ELSE "verify_error",
                         500, ServerErrorResponse)
               /\ UNCHANGED trace
    /\ UNCHANGED <<processed_events, config, arrived, req, locals, history>>

\* if data.get("type") == "event_callback": ... else fall through to the end
Dispatch(h) ==
    /\ CanStep(h, "dispatch")
    /\ Continue(h, IF req[h].body.kind = "event_callback" THEN "dedupe_check"
                   ELSE "return_ok")
    /\ UNCHANGED <<processed_events, config, arrived, req, trace, locals, history>>

\* if event_id in processed_events: return {"status": "ok"}
DedupeCheck(h) ==
    /\ CanStep(h, "dedupe_check")
    /\ IF AlreadyProcessed(EventId(h))
       THEN /\ Finish(h, "duplicate", 200, OkResponse)
            /\ UNCHANGED accepts
       ELSE /\ Continue(h, "dedupe_add")
            /\ accepts' = Bump(accepts, EventId(h))
    /\ UNCHANGED <<processed_events, config, arrived, req, trace, locals, outbox>>

\* processed_events.add(event_id)
DedupeAdd(h) ==
    /\ CanStep(h, "dedupe_add")
    /\ processed_events' = Registered(EventId(h))
    /\ Record(h, "registry_add", TRUE)
    /\ Continue(h, "trigger")
    /\ UNCHANGED <<config, arrived, req, locals, history>>

\* The channel test with an empty ALLOWED_CHANNELS allowing no channel.
ChannelAllowedStrict(channel) == channel \in ALLOWED_CHANNELS

\* not (ALLOWED_CHANNELS and channel not in ALLOWED_CHANNELS)
ChannelAllowed(channel) == ~(ALLOWED_CHANNELS # {} /\ channel \notin ALLOWED_CHANNELS)

\* The app_mention test, the channel test and the query extraction.
Trigger(h) ==
    /\ CanStep(h, "trigger")
    /\ LET b == req[h].body
           q == extract_query_from_mention(b.text) IN
        IF b.etype # "app_mention"
        THEN /\ Continue(h, "return_ok")
             /\ UNCHANGED question
        ELSE IF ~ChannelAllowed(b.channel)
        THEN /\ Finish(h, "channel", 200, OkResponse)
             /\ UNCHANGED question
        ELSE /\ question' = [question EXCEPT ![h] = q]
             /\ Continue(h, IF q = <<>> THEN "hint" ELSE "placeholder")
    /\ UNCHANGED <<processed_events, config, arrived, req, trace, answer, sources,
                   formatted_msg, err, history>>

\* if not question: post the usage hint (outside the try) and return.
PostHint(h) ==
    /\ CanStep(h, "hint")
    /\ \E out \in SlackOutcomes :
        /\ SlackCall(h, "post_hint", out)
        /\ IF out = "ok"
           THEN Finish(h, "hint", 200, OkResponse)
           ELSE Finish(h, "hint_error", 500, ServerErrorResponse)
    /\ UNCHANGED <<processed_events, config, arrived, req, locals, accepts>>

\* except clauses that only log and fall through to the final return.
ExceptLogsOnly(e) == "return_ok"

\* Where control goes when a statement of the try block raises: both except
\* clauses post an error reply in the thread.
ExceptClause(e) == "error_reply"

Raise(h, e) ==
    /\ err' = [err EXCEPT ![h] = e]
    /\ Continue(h, ExceptClause(e))

\* processing_msg = slack_client.chat_postMessage(... placeholder ...)
PostPlaceholder(h) ==
    /\ CanStep(h, "placeholder")
    /\ \E out \in SlackOutcomes :
        /\ SlackCall(h, "post_placeholder", out)
        /\ IF out = "ok"
           THEN Continue(h, "query") /\ UNCHANGED err
           ELSE Raise(h, out)
    /\ UNCHANGED <<processed_events, config, arrived, req, question, answer, sources,
                   formatted_msg, accepts>>

\* query_proposal_store calling query_without_file_search in every case.
AlwaysFallback(ok) == "fallback"

\* Where query_proposal_store goes after its try block (lines 98-127): it
\* returns when the block ended, and calls query_without_file_search when the
\* block raised, in generate_content or after it.
AfterGrounded(ok) == IF ok THEN "format" ELSE "fallback"

\* query_proposal_store: the grounded generate_content call (line 108), the
\* reading of response.text (line 110) and the source extraction.  The call
\* returns a readable response, returns one whose text cannot be read, or
\* raises; the except clause of line 129 takes both of the last two to
\* query_without_file_search.
QueryGrounded(h) ==
    /\ CanStep(h, "query")
    /\ \/ \E resp \in GroundedResponses :
            IF Readable(resp)
            THEN \E order \in Orderings(SourceSet(resp)) :
                    /\ Record(h, "query_grounded", TRUE)
                    /\ answer' = [answer EXCEPT ![h] = TextAnswer(resp.text)]
                    /\ sources' = [sources EXCEPT ![h] = order]
                    /\ Continue(h, AfterGrounded(TRUE))
            ELSE /\ trace' = [trace EXCEPT ![h] =
                                @ \o <<Effect("query_grounded", TRUE),
                                       Effect("response_text", FALSE)>>]
                 /\ Continue(h, AfterGrounded(FALSE))
                 /\ UNCHANGED <<answer, sources>>
       \/ /\ Record(h, "query_grounded", FALSE)
          /\ Continue(h, AfterGrounded(FALSE))
          /\ UNCHANGED <<answer, sources>>
    /\ UNCHANGED <<processed_events, config, arrived, req, question, formatted_msg,
                   err, history>>

\* query_without_file_search: one more generate_content call, no sources.
QueryFallback(h) ==
    /\ CanStep(h, "fallback")
    /\ \/ /\ Record(h, "query_fallback", TRUE)
          /\ answer' = [answer EXCEPT ![h] = TextAnswer(AnswerText)]
          /\ sources' = [sources EXCEPT ![h] = <<>>]
          /\ Continue(h, "format")
          /\ UNCHANGED err
       \/ /\ Record(h, "query_fallback", FALSE)
          /\ LET r == FallbackOnError(BackendError) IN
              IF r.raised
              THEN Raise(h, "Exception") /\ UNCHANGED <<answer, sources>>
              ELSE /\ answer' = [answer EXCEPT ![h] = r.answer]
                   /\ sources' = [sources EXCEPT ![h] = r.sources]
                   /\ Continue(h, "format")
                   /\ UNCHANGED err
    /\ UNCHANGED <<processed_events, config, arrived, req, question, formatted_msg,
                   history>>

\* formatted_msg = format_slack_message(answer, sources, question)
Format(h) ==
    /\ CanStep(h, "format")
    /\ formatted_msg' = [formatted_msg EXCEPT ![h] =
                            format_slack_message(answer[h], sources[h], question[h])]
    /\ Continue(h, "delete")
    /\ UNCHANGED <<processed_events, config, arrived, req, trace, question, answer,
                   sources, err, history>>

\* A chat_delete whose failure is ignored, the final reply being posted anyway.
DeleteFailureIgnored(out) == FALSE

\* chat_delete is a statement of the try block with no handler of its own: a
\* failed delete raises out of it and skips the final chat_postMessage.
DeleteRaises(out) == out # "ok"

\* slack_client.chat_delete(channel, ts=processing_msg["ts"])
DeletePlaceholder(h) ==
    /\ CanStep(h, "delete")
    /\ \E out \in SlackOutcomes :
        /\ SlackCall(h, "delete_placeholder", out)
        /\ IF ~DeleteRaises(out)
           THEN Continue(h, "final") /\ UNCHANGED err
           ELSE Raise(h, out)
    /\ UNCHANGED <<processed_events, config, arrived, req, question, answer, sources,
                   formatted_msg, accepts>>

\* slack_client.chat_postMessage(channel, thread_ts, **formatted_msg)
PostFinal(h) ==
    /\ CanStep(h, "final")
    /\ \E out \in SlackOutcomes :
        /\ SlackCall(h, "post_final", out)
        /\ IF out = "ok"
           THEN Continue(h, "return_ok") /\ UNCHANGED err
           ELSE Raise(h, out)
    /\ UNCHANGED <<processed_events, config, arrived, req, question, answer, sources,
                   formatted_msg, accepts>>

\* The except clauses: post the error text in the thread.  The post is not
\* guarded, so an exception it raises leaves slack_events.
PostError(h) ==
    /\ CanStep(h, "error_reply")
    /\ \E out \in SlackOutcomes :
        /\ SlackCall(h, "post_error", out)
        /\ IF out = "ok"
           THEN Continue(h, "return_ok")
           ELSE Finish(h, "except_error", 500, ServerErrorResponse)
    /\ UNCHANGED <<processed_events, config, arrived, req, locals, accepts>>

\* The last line of slack_events: return {"status": "ok"}
ReturnOk(h) ==
    /\ CanStep(h, "return_ok")
    /\ Finish(h, "end", 200, OkResponse)
    /\ UNCHANGED <<processed_events, config, arrived, req, trace, locals, history>>

\* The response is written to the client, the handler's frame is dropped and
\* the event loop is free again.
Respond(h) ==
    /\ CanStep(h, "done")
    /\ running' = 0
    /\ pc' = [pc EXCEPT ![h] = "idle"]
    /\ req' = [req EXCEPT ![h] = NoRequest]
    /\ status' = [status EXCEPT ![h] = 0]
    /\ exit' = [exit EXCEPT ![h] = ""]
    /\ response' = [response EXCEPT ![h] = NoResponse]
    /\ trace' = [trace EXCEPT ![h] = <<>>]
    /\ question' = [question EXCEPT ![h] = <<>>]
    /\ answer' = [answer EXCEPT ![h] = NoAnswer]
    /\ sources' = [sources EXCEPT ![h] = <<>>]
    /\ formatted_msg' = [formatted_msg EXCEPT ![h] = <<>>]
    /\ err' = [err EXCEPT ![h] = None]
    /\ UNCHANGED <<processed_events, config, arrived, history>>

Next ==
    \E h \in Handlers :
        \/ Arrive(h)
        \/ ReadBody(h)
        \/ Parse(h)
        \/ Verify(h)
        \/ Dispatch(h)
        \/ DedupeCheck(h)
        \/ DedupeAdd(h)
        \/ Trigger(h)
        \/ PostHint(h)
        \/ PostPlaceholder(h)
        \/ QueryGrounded(h)
        \/ QueryFallback(h)
        \/ Format(h)
        \/ DeletePlaceholder(h)
        \/ PostFinal(h)
        \/ PostError(h)
        \/ ReturnOk(h)
        \/ Respond(h)

Spec == Init /\ [][Next]_vars

\* ------------------------------------------------------------- properties
Ended(h) == pc[h] = "done"
Did(h, op) == \E i \in DOMAIN trace[h] : trace[h][i] = Effect(op, TRUE)
Failed(h, op) == \E i \in DOMAIN trace[h] : trace[h][i] = Effect(op, FALSE)
Occurrences(seq, x) == Cardinality({i \in DOMAIN seq : seq[i] = x})

ReplyOps == {"post_final", "post_hint", "post_error"}
SlackOps == ReplyOps \cup {"post_placeholder", "delete_placeholder"}
Replies(id) == Cardinality({i \in DOMAIN outbox[id] : outbox[id][i] \in ReplyOps})

Verified == <<Effect("verify_signature", TRUE)>>
Rejected == <<Effect("verify_signature", FALSE)>>

\* C1: for every event id, Slack accepted at most one reply (final answer,
\* usage hint or error reply) over all deliveries of that id.
C1_AtMostOneReply == \A id \in EventIds : Replies(id) <= 1

\* A redelivery of an answered event has ended as a duplicate.
C1_Witness ==
    \E h \in Handlers :
        Ended(h) /\ exit[h] = "duplicate" /\ Replies(EventId(h)) = 1

\* C2: for every event id at most one handler passes the duplicate check; an
\* id in the registry was passed once, and a handler is stopped as a duplicate
\* only after another handler passed the check for that id.
C2_SingleAccept ==
    /\ \A id \in EventIds :
        /\ accepts[id] <= 1
        /\ id \in processed_events => accepts[id] = 1
    /\ \A h \in Handlers :
        Ended(h) /\ exit[h] = "duplicate" => accepts[EventId(h)] = 1

\* Two deliveries were in flight together (slot 2 is taken only while slot 1
\* is busy), and the one in slot 2 was stopped by the check.
C2_Witness ==
    /\ arrived = 2
    /\ pc[1] = "idle"
    /\ Ended(2) /\ exit[2] = "duplicate"
    /\ accepts[EventId(2)] = 1

\* The requests for which verify_slack_signature returns false: the timestamp
\* is an integer a float can hold and is stale, or it is fresh, the body is
\* UTF-8 and the signature is an ASCII string other than the MAC.
StaleOrForged(r) ==
    /\ r.ts.isint /\ ~r.ts.huge
    /\ \/ Abs(r.now - Seconds(r.ts.val)) > Seconds(WINDOW)
       \/ /\ r.body.utf8
          /\ IsAscii(SignatureHeader(r))
          /\ SignatureHeader(r) # Mac(SLACK_SIGNING_SECRET, r.ts, r.body)

\* C3: a parsed request that is not the handshake and for which the
\* verification returns false (signature bad or stale) ends with 403 and the handler has done nothing else: no registry
\* insert, no backend query, no Slack call.
C3_BadSignatureRejected ==
    \A h \in Handlers :
        (/\ Ended(h)
         /\ req[h].body.kind \in {"event_callback", "other"}
         /\ StaleOrForged(req[h]))
        => /\ status[h] = 403
           /\ response[h] = ForbiddenResponse
           /\ trace[h] = Rejected

\* A stale event with the correct MAC was rejected and its id is not registered.
C3_Witness ==
    \E h \in Handlers :
        /\ Ended(h) /\ status[h] = 403
        /\ req[h].body.kind = "event_callback"
        /\ req[h].sig = "good"
        /\ EventId(h) \notin processed_events

\* C4: a url_verification body is answered with its challenge whatever the
\* headers are, and the handler has no side effect.
C4_HandshakeBeforeVerify ==
    \A h \in Handlers :
        (Ended(h) /\ req[h].body.kind = "url_verification")
        => /\ status[h] = 200
           /\ response[h] = ChallengeResponse(req[h].body.challenge)
           /\ trace[h] = <<>>

\* A handshake with a forged signature and no timestamp was answered.
C4_Witness ==
    \E h \in Handlers :
        /\ Ended(h) /\ req[h].body.kind = "url_verification"
        /\ req[h].sig = "forged" /\ ~req[h].ts.isint
        /\ response[h] = ChallengeResponse("ch2")

\* C5: the step of a verified event_callback whose event_id is in the registry
\* ends the handler with the success response and changes nothing else.
C5_DuplicateDropped ==
    [][\A h \in Handlers :
        (pc[h] = "dedupe_check" /\ EventId(h) \in processed_events /\ pc'[h] # pc[h])
        => /\ pc'[h] = "done"
           /\ status'[h] = 200
           /\ response'[h] = OkResponse
           /\ trace'[h] = trace[h]
           /\ processed_events' = processed_events
           /\ outbox' = outbox]_vars

\* A redelivery ended at the duplicate return with nothing but the verification.
C5_Witness ==
    \E h \in Handlers :
        /\ Ended(h) /\ exit[h] = "duplicate"
        /\ trace[h] = Verified
        /\ outbox[EventId(h)] # <<>>

\* C6: a handler that posted the placeholder and ended without an unhandled
\* exception has deleted it and posted the final reply, or posted an error
\* reply; the placeholder is not the last call Slack accepted for the event.
C6_PlaceholderNotStranded ==
    \A h \in Handlers :
        (Ended(h) /\ status[h] = 200 /\ Did(h, "post_placeholder"))
        => /\ \/ Did(h, "delete_placeholder") /\ Did(h, "post_final")
              \/ Did(h, "post_error")
           /\ outbox[EventId(h)][Len(outbox[EventId(h)])] # "post_placeholder"

\* The delete failed after the placeholder and the error reply was posted.
C6_Witness ==
    \E h \in Handlers :
        /\ Ended(h) /\ status[h] = 200
        /\ Did(h, "post_placeholder") /\ Failed(h, "delete_placeholder")
        /\ Did(h, "post_error")

\* C7: after a failed Slack call of the try block the error reply is attempted
\* and, whether or not it succeeds, the request is acknowledged with 200.
C7_SlackFailureSwallowed ==
    \A h \in Handlers :
        (Ended(h) /\ \E op \in {"post_placeholder", "delete_placeholder", "post_final"} :
                        Failed(h, op))
        => /\ Did(h, "post_error") \/ Failed(h, "post_error")
           /\ status[h] = 200

\* C8: a request ends with a status other than 200 only when the signature
\* verification failed.
C8_OnlyAuthFailureNon200 ==
    \A h \in Handlers :
        (Ended(h) /\ status[h] # 200) => (status[h] = 403 /\ trace[h] = Rejected)

\* C9: once the grounded call was made the query ends with an answer and never
\* with an exception; when both backend calls raised, the answer is the error
\* string with no sources, and a final reply posted for it has no source section.
C9_QueryNeverRaises ==
    \A h \in Handlers :
        /\ (Did(h, "query_grounded") \/ Failed(h, "query_grounded")) /\ pc[h] # "fallback"
            => answer[h] # NoAnswer
        /\ Failed(h, "query_grounded") /\ Failed(h, "query_fallback")
            => /\ answer[h] = ErrorAnswer(BackendError)
               /\ sources[h] = <<>>
               /\ Did(h, "post_final") =>
                    formatted_msg[h] = <<Section("question", <<question[h]>>), Divider,
                                         Section("answer", <<ErrorAnswer(BackendError)>>)>>

\* Both backend calls raised and the error answer was posted as the final reply.
C9_Witness ==
    \E h \in Handlers :
        /\ Ended(h) /\ status[h] = 200
        /\ Failed(h, "query_grounded") /\ Failed(h, "query_fallback")
        /\ Did(h, "post_final")

HappyPath(h) ==
    /\ Did(h, "registry_add")
    /\ req[h].body.etype = "app_mention"
    /\ ALLOWED_CHANNELS = {} \/ req[h].body.channel \in ALLOWED_CHANNELS
    /\ extract_query_from_mention(req[h].body.text) # <<>>
    /\ Did(h, "query_grounded")
    /\ \A i \in DOMAIN trace[h] : trace[h][i].ok

\* C10: an accepted app_mention with a question, a backend answer and no
\* failing Slack call makes exactly the calls placeholder, query, delete, final
\* reply; the reply carries the question, the answer and the sources (the
\* first SOURCE_LIMIT of them); and no Slack call is accepted twice for one
\* event id, whatever is redelivered.
C10_EndToEnd ==
    /\ \A h \in Handlers :
        (Ended(h) /\ HappyPath(h))
        => /\ trace[h] = <<Effect("verify_signature", TRUE), Effect("registry_add", TRUE),
                           Effect("post_placeholder", TRUE), Effect("query_grounded", TRUE),
                           Effect("delete_placeholder", TRUE), Effect("post_final", TRUE)>>
           /\ outbox[EventId(h)] = <<"post_placeholder", "delete_placeholder", "post_final">>
           /\ formatted_msg[h][1] = Section("question", <<extract_query_from_mention(req[h].body.text)>>)
           /\ formatted_msg[h][3] = Section("answer", <<answer[h]>>)
           /\ Len(formatted_msg[h]) = IF sources[h] = <<>> THEN 3 ELSE 4
           /\ sources[h] # <<>> =>
                formatted_msg[h][4] =
                    Section("sources", SubSeq(sources[h], 1, Min(SOURCE_LIMIT, Len(sources[h]))))
    /\ \A id \in EventIds : \A op \in SlackOps : Occurrences(outbox[id], op) <= 1

\* The second delivery of an event answered with sources ended as a duplicate
\* and the event's outbox still holds the three calls of the first delivery.
C10_Witness ==
    \E h \in Handlers :
        /\ Ended(h) /\ exit[h] = "duplicate"
        /\ outbox[EventId(h)] = <<"post_placeholder", "delete_placeholder", "post_final">>

\* The labels at which a handler is inside a call to the backend or to Slack.
OutstandingLabels ==
    {"query", "fallback", "hint", "placeholder", "delete", "final", "error_reply"}

\* C11: while a handler is inside its backend query or a Slack call, a request
\* whose handler waits for its body can be served: its next step is enabled.
C11_OthersProgressDuringQuery ==
    \A h, g \in Handlers :
        (h # g /\ pc[h] \in OutstandingLabels /\ pc[g] = "read_body")
        => ENABLED ReadBody(g)

\* ------------------------------------------------- focused specifications
\* The state in which handler 1, alone, has reached `label` with request r,
\* having made the effects tr, with `registry` the ids inserted so far.
MidwayWith(r, label, tr, registry, allowed, q, a, srcs, sent) ==
    /\ processed_events = registry
    /\ ALLOWED_CHANNELS = allowed
    /\ running = 1
    /\ arrived = 1
    /\ pc = [h \in Handlers |-> IF h = 1 THEN label ELSE "idle"]
    /\ req = [h \in Handlers |-> IF h = 1 THEN r ELSE NoRequest]
    /\ status = [h \in Handlers |-> 0]
    /\ exit = [h \in Handlers |-> ""]
    /\ response = [h \in Handlers |-> NoResponse]
    /\ trace = [h \in Handlers |-> IF h = 1 THEN tr ELSE <<>>]
    /\ question = [h \in Handlers |-> IF h = 1 THEN q ELSE <<>>]
    /\ answer = [h \in Handlers |-> IF h = 1 THEN a ELSE NoAnswer]
    /\ sources = [h \in Handlers |-> IF h = 1 THEN srcs ELSE <<>>]
    /\ formatted_msg = [h \in Handlers |-> <<>>]
    /\ err = [h \in Handlers |-> None]
    /\ accepts = [id \in EventIds |-> IF id \in registry THEN 1 ELSE 0]
    /\ outbox = [id \in EventIds |-> IF id = r.body.event_id THEN sent ELSE <<>>]

\* The same before the question is extracted and before any Slack call.
Midway(r, label, tr, registry, allowed) ==
    MidwayWith(r, label, tr, registry, allowed, <<>>, NoAnswer, <<>>, <<>>)

\* Timestamps around both edges of the freshness window, and one too large for
\* a float.
WindowOffsets == {-(WINDOW + 1), -WINDOW, -(WINDOW - 1), 0, WINDOW - 1, WINDOW, WINDOW + 1}
WindowTsHeaders == {IntHeader(Clock + d) : d \in WindowOffsets} \cup {HugeHeader}

\* The bodies json.loads accepts that are not the handshake, in UTF-8 and in
\* another encoding.
VerifyBodies ==
    LET parsed == {x \in Bodies : x.kind \in {"event_callback", "other"}}
    IN  parsed \cup {[x EXCEPT !.utf8 = FALSE] : x \in parsed}

\* The requests that reach verify_slack_signature with an integer timestamp.
VerifyRequests ==
    {[body |-> b, ts |-> t, sig |-> s, now |-> n] :
        b \in VerifyBodies,
        t \in WindowTsHeaders,
        s \in {"good", "forged", "missing", "nonascii"},
        n \in Nows}

InitVerify ==
    \E r \in VerifyRequests : \E allowed \in AllowedChannelConfigs :
        Midway(r, "verify", <<>>, {}, allowed)

NextVerify == \E h \in Handlers : Verify(h)

\* verify_slack_signature applied to every request of VerifyRequests.
SpecVerify == InitVerify /\ [][NextVerify]_vars

\* The timestamp of handler h's request is more than 300 seconds from the
\* clock reading of its verification.
MoreThan300Away(h) ==
    \/ req[h].ts.huge
    \/ Abs(req[h].now - Seconds(req[h].ts.val)) > Seconds(300)

\* C12: a request whose integer timestamp is more than 300 seconds from now is
\* turned away by the verification returning false (403) whatever its
\* signature; one within 300 seconds, 300 included, is not turned away by the
\* freshness test: with the correct MAC it is accepted.
C12_FreshnessWindow ==
    \A h \in Handlers :
        (pc[h] \in {"dispatch", "done"} /\ req[h].ts.isint) =>
            IF MoreThan300Away(h)
            THEN status[h] = 403 /\ exit[h] = "forbidden"
            ELSE (req[h].sig = "good" /\ req[h].body.utf8)
                    => pc[h] = "dispatch" /\ trace[h] = Verified

\* Every text of at most MaxTextLen tokens: mentions, spaces, words, keywords.
Tokens == {Mention, Space, Word, Keyword}
AllTexts == SeqsUpTo(Tokens, MaxTextLen)

\* The event types of the main specification and one that is neither a
\* message nor a mention.
AllEventTypes == EventTypes \cup {"reaction_added"}

\* The deliveries of one event that passed verification and the duplicate test.
AcceptedRequests ==
    {[body |-> [kind |-> "event_callback", challenge |-> None, event_id |-> "Ev1",
                etype |-> et, channel |-> ch, text |-> tx, utf8 |-> TRUE],
      ts |-> IntHeader(Clock), sig |-> "good", now |-> Now] :
        et \in AllEventTypes, ch \in Channels, tx \in AllTexts}

InitAccepted ==
    \E r \in AcceptedRequests : \E allowed \in AllowedChannelConfigs :
        Midway(r, "trigger", Verified \o <<Effect("registry_add", TRUE)>>,
               {r.body.event_id}, allowed)

NextAccepted ==
    \E h \in Handlers :
        \/ Trigger(h)
        \/ PostHint(h)
        \/ PostPlaceholder(h)
        \/ QueryGrounded(h)
        \/ QueryFallback(h)
        \/ Format(h)
        \/ DeletePlaceholder(h)
        \/ PostFinal(h)
        \/ PostError(h)
        \/ ReturnOk(h)
        \/ Respond(h)

\* The handling of one accepted event, from the trigger test on, for every
\* text of AllTexts.
SpecAccepted == InitAccepted /\ [][NextAccepted]_vars

\* The text without its mention tokens, cut at its first and last token that
\* is not a space.
Remaining(text) ==
    LET kept == SelectSeq(text, LAMBDA tok : tok # Mention)
        solid == {i \in DOMAIN kept : kept[i] # Space}
    IN  IF solid = {} THEN <<>>
        ELSE SubSeq(kept, CHOOSE i \in solid : \A j \in solid : i <= j,
                          CHOOSE i \in solid : \A j \in solid : j <= i)

MentionInAllowedChannel(h) ==
    /\ Did(h, "registry_add")
    /\ req[h].body.etype = "app_mention"
    /\ ALLOWED_CHANNELS = {} \/ req[h].body.channel \in ALLOWED_CHANNELS

Attempts(h, op) == Cardinality({i \in DOMAIN trace[h] : trace[h][i].op = op})

\* C13: for an accepted app_mention in an allowed channel, when nothing remains
\* of the text the handler makes one usage-hint post and nothing else (no
\* placeholder, no backend call, no other reply); when something remains, it is
\* the question the handler goes on with.
C13_HintOrQuestion ==
    \A h \in Handlers :
        MentionInAllowedChannel(h) =>
            IF Remaining(req[h].body.text) = <<>>
            THEN /\ \A i \in DOMAIN trace[h] :
                        trace[h][i].op \in {"verify_signature", "registry_add", "post_hint"}
                 /\ Attempts(h, "post_hint") <= 1
                 /\ Ended(h) =>
                        /\ Attempts(h, "post_hint") = 1
                        /\ Did(h, "post_hint") =>
                              /\ outbox[EventId(h)] = <<"post_hint">>
                              /\ status[h] = 200
            ELSE /\ Attempts(h, "post_hint") = 0
                 /\ pc[h] # "trigger" => question[h] = Remaining(req[h].body.text)
                 /\ pc[h] # "hint"

\* A mention followed only by whitespace got the usage hint.
C13_Witness ==
    \E h \in Handlers :
        /\ MentionInAllowedChannel(h)
        /\ Ended(h)
        /\ Len(req[h].body.text) > 1
        /\ outbox[EventId(h)] = <<"post_hint">>

\* "<@U123> find" reached the backend as "find".
C13_QuestionAsked ==
    \E h \in Handlers :
        /\ req[h].body.text = <<Mention, Space, Word>>
        /\ Did(h, "query_grounded")
        /\ question[h] = <<Word>>

\* An accepted event the handler ignores: not an app_mention (line 237), or
\* in a channel outside a non-empty ALLOWED_CHANNELS (line 241).
Ignored(h) ==
    /\ Did(h, "registry_add")
    /\ \/ req[h].body.etype # "app_mention"
       \/ ALLOWED_CHANNELS # {} /\ req[h].body.channel \notin ALLOWED_CHANNELS

\* C14: an accepted event that is not a mention (so also one that is neither a
\* message nor a mention), or whose channel is outside a non-empty
\* ALLOWED_CHANNELS, makes no Slack call and no backend query and is answered
\* 200 ok; with ALLOWED_CHANNELS empty no
\* mention is turned away for its channel.
C14_IgnoredHasNoEffect ==
    \A h \in Handlers :
        /\ Ignored(h) =>
              /\ trace[h] = Verified \o <<Effect("registry_add", TRUE)>>
              /\ outbox[EventId(h)] = <<>>
              /\ pc[h] \in {"trigger", "return_ok", "done"}
              /\ Ended(h) => status[h] = 200 /\ response[h] = OkResponse
        /\ (MentionInAllowedChannel(h) /\ ALLOWED_CHANNELS = {}) => exit[h] # "channel"

\* A mention in channel C2 was ignored while only C1 is allowed.
C14_Witness ==
    \E h \in Handlers :
        /\ Ignored(h) /\ Ended(h)
        /\ req[h].body.etype = "app_mention"
        /\ req[h].body.channel = "C2" /\ ALLOWED_CHANNELS = {"C1"}
        /\ response[h] = OkResponse

\* An event that is neither a message nor a mention was ignored.
C14_OtherTypeIgnored ==
    \E h \in Handlers :
        Ignored(h) /\ Ended(h) /\ req[h].body.etype = "reaction_added"

\* With ALLOWED_CHANNELS empty a mention in any channel is answered.
C14_EmptyAllowsAll ==
    \E h \in Handlers :
        /\ ALLOWED_CHANNELS = {} /\ req[h].body.channel = "C2"
        /\ Did(h, "post_final")

\* config.BOT_TRIGGER_KEYWORDS with the variable unset: the default
\* "제안서,proposal" (the first keyword written in Latin letters).
BOT_TRIGGER_KEYWORDS == _parse_csv_env(<<Item("jeanseo", FALSE), Item("proposal", FALSE)>>)

\* any(keyword in text.lower() for keyword in BOT_TRIGGER_KEYWORDS), as the
\* specification describes the passive-listen trigger.
ContainsKeyword(text) ==
    \E i \in DOMAIN text : text[i] \in ToSet(BOT_TRIGGER_KEYWORDS)

\* C15: an accepted plain message whose text contains a trigger keyword, in an
\* allowed channel (or with no channel restriction), gets a bot response: the
\* handler that ends has posted a placeholder and queried the backend; the same
\* message in a channel outside a non-empty ALLOWED_CHANNELS gets none.
C15_KeywordTriggers ==
    \A h \in Handlers :
        (/\ Ended(h)
         /\ Did(h, "registry_add")
         /\ req[h].body.etype = "message"
         /\ ContainsKeyword(req[h].body.text))
        => IF ALLOWED_CHANNELS = {} \/ req[h].body.channel \in ALLOWED_CHANNELS
           THEN Attempts(h, "post_placeholder") = 1 /\ Attempts(h, "query_grounded") = 1
           ELSE Attempts(h, "post_placeholder") = 0 /\ Attempts(h, "query_grounded") = 0

\* -------------------------------------------------------- the formatter
DocNames == <<"Doc A", "Doc B", "Doc C", "Doc D", "Doc E", "Doc F", "Doc G", "Doc H">>
DocTitles == {DocNames[i] : i \in 1..MaxSources}

\* list(source_set) for every set of titles: up to MaxSources distinct titles
\* in any order.
SourceLists == UNION {Orderings(S) : S \in SUBSET DocTitles}

Questions == {<<Word>>, <<Word, Space, Keyword>>}

\* What query_proposal_store can have returned, with the backend calls made:
\* a grounded answer with any source list, or a fallback result without sources.
QueryResults ==
    {[answer |-> TextAnswer(AnswerText), sources |-> srcs,
      calls |-> <<Effect("query_grounded", TRUE)>>] : srcs \in SourceLists}
    \cup {[answer |-> a.answer, sources |-> <<>>, calls |-> g \o <<a.call>>] :
            g \in {<<Effect("query_grounded", FALSE)>>,
                   <<Effect("query_grounded", TRUE), Effect("response_text", FALSE)>>},
            a \in {[answer |-> TextAnswer(AnswerText),
                    call |-> Effect("query_fallback", TRUE)],
                   [answer |-> FallbackOnError(BackendError).answer,
                    call |-> Effect("query_fallback", FALSE)]}}

MentionRequest(q) ==
    [body |-> [kind |-> "event_callback", challenge |-> None, event_id |-> "Ev1",
               etype |-> "app_mention", channel |-> "C1", text |-> <<Mention, Space>> \o q,
               utf8 |-> TRUE],
     ts |-> IntHeader(Clock), sig |-> "good", now |-> Now]

InitFormat ==
    \E q \in Questions : \E res \in QueryResults : \E allowed \in AllowedChannelConfigs :
        MidwayWith(MentionRequest(q), "format",
                   Verified \o <<Effect("registry_add", TRUE), Effect("post_placeholder", TRUE)>>
                            \o res.calls,
                   {"Ev1"}, allowed, q, res.answer, res.sources, <<"post_placeholder">>)

NextFormat == \E h \in Handlers : Format(h)

\* format_slack_message applied to every result of QueryResults.
SpecFormat == InitFormat /\ [][NextFormat]_vars

\* C16: the formatted message is the question section, the divider and the
\* answer section, in that order, followed by a source section exactly when
\* there are sources; that section lists the first min(5, len(sources)) titles
\* in input order and nothing more.
C16_FormatSections ==
    \A h \in Handlers :
        pc[h] = "delete" =>
            LET m == formatted_msg[h]
                n == Len(sources[h])
            IN  /\ Len(m) = IF n = 0 THEN 3 ELSE 4
                /\ m[1] = Section("question", <<question[h]>>)
                /\ m[2] = Divider
                /\ m[3] = Section("answer", <<answer[h]>>)
                /\ n > 0 =>
                      /\ m[4].type = "section" /\ m[4].label = "sources"
                      /\ Len(m[4].content) = (IF n < 5 THEN n ELSE 5)
                      /\ \A i \in DOMAIN m[4].content : m[4].content[i] = sources[h][i]

\* Six sources were formatted into a section of five titles.
C16_Witness ==
    \E h \in Handlers :
        /\ pc[h] = "delete"
        /\ sources[h] = <<"Doc A", "Doc B", "Doc C", "Doc D", "Doc E", "Doc F">>
        /\ Len(formatted_msg[h]) = 4
        /\ formatted_msg[h][4].content = <<"Doc A", "Doc B", "Doc C", "Doc D", "Doc E">>

\* The try block of query_proposal_store raised: in generate_content, or
\* after it returned, while response.text was read.
GroundedBlockRaised(h) ==
    Failed(h, "query_grounded") \/ Failed(h, "response_text")

\* C17, as stated: a handler makes at most one grounded call and at most one
\* fallback call; the fallback is called once when the grounded call raised,
\* and leaves an empty source list; it is never called when the grounded call
\* succeeded, that is when generate_content returned.
C17_NoFallbackAfterSuccess ==
    \A h \in Handlers :
        /\ Attempts(h, "query_grounded") <= 1
        /\ Attempts(h, "query_fallback") <= 1
        /\ Did(h, "query_grounded") => Attempts(h, "query_fallback") = 0
        /\ (Failed(h, "query_grounded") /\ pc[h] # "fallback")
              => Attempts(h, "query_fallback") = 1 /\ sources[h] = <<>>

\* C17, corrected: a handler makes at most one grounded call and at most one
\* fallback call; the fallback is called exactly when the try block of the
\* grounded query raised, be it in generate_content or, after that call
\* returned, while its response was read; it is called once and leaves an empty
\* source list; it is never called after a grounded call whose response was
\* read.
C17_FallbackOnce ==
    \A h \in Handlers :
        /\ Attempts(h, "query_grounded") <= 1
        /\ Attempts(h, "query_fallback") <= 1
        /\ Attempts(h, "query_fallback") = 1 => GroundedBlockRaised(h)
        /\ (Did(h, "query_grounded") /\ ~Failed(h, "response_text"))
              => Attempts(h, "query_fallback") = 0
        /\ (GroundedBlockRaised(h) /\ pc[h] # "fallback")
              => Attempts(h, "query_fallback") = 1 /\ sources[h] = <<>>

\* generate_content returned a response whose text could not be read, and the
\* question was answered through the fallback.
C17_Witness ==
    \E h \in Handlers :
        /\ Ended(h)
        /\ Did(h, "query_grounded") /\ Failed(h, "response_text")
        /\ Did(h, "query_fallback")
        /\ Did(h, "post_final")
        /\ sources[h] = <<>>

\* The grounded call raised and the question was answered through the fallback.
C17_CallRaised ==
    \E h \in Handlers :
        /\ Ended(h)
        /\ Failed(h, "query_grounded")
        /\ Did(h, "query_fallback")
        /\ Did(h, "post_final")

\* The position of each side effect in the order of slack_events.
Rank(op) ==
    CASE op = "verify_signature" -> 1
      [] op = "registry_add" -> 2
      [] op = "post_hint" -> 3
      [] op = "post_placeholder" -> 3
      [] op = "query_grounded" -> 4
      [] op = "response_text" -> 5
      [] op = "query_fallback" -> 6
      [] op = "delete_placeholder" -> 7
      [] op = "post_final" -> 8
      [] op = "post_error" -> 9

Before(h, op1, op2) ==
    \A j \in DOMAIN trace[h] :
        trace[h][j].op = op2 => \E i \in 1..(j - 1) : trace[h][i] = Effect(op1, TRUE)

\* C18: a handler's side effects come in the order verification, registry
\* insert, placeholder, backend query, placeholder delete, final reply, each at
\* most once and each after the success of the one before it; the final reply
\* is posted only after a delete that succeeded, and after a delete that failed
\* the final reply is never posted and the error reply is posted instead.
C18_FixedOrder ==
    \A h \in Handlers :
        /\ \A i, j \in DOMAIN trace[h] :
              i < j => Rank(trace[h][i].op) < Rank(trace[h][j].op)
        /\ Before(h, "verify_signature", "registry_add")
        /\ Before(h, "registry_add", "post_placeholder")
        /\ Before(h, "post_placeholder", "query_grounded")
        /\ \A j \in DOMAIN trace[h] :
              trace[h][j].op = "delete_placeholder" =>
                  \E i \in 1..(j - 1) :
                      trace[h][i].op \in {"query_grounded", "query_fallback"}
        /\ Before(h, "delete_placeholder", "post_final")
        /\ Failed(h, "delete_placeholder") =>
              /\ Attempts(h, "post_final") = 0
              /\ pc[h] # "error_reply" => Attempts(h, "post_error") = 1
              /\ pc[h] \in {"error_reply", "return_ok", "done"}

\* A handler whose delete failed ended with an error reply and no final reply.
C18_Witness ==
    \E h \in Handlers :
        /\ Ended(h)
        /\ Failed(h, "delete_placeholder")
        /\ Did(h, "post_error")
        /\ outbox[EventId(h)] = <<"post_placeholder", "post_error">>

\* Handler h has made its insert: it is at the trigger test or after it, or
\* has a Slack or backend call behind it.
PastInsert(h) ==
    \/ pc[h] \in {"trigger", "hint", "placeholder", "query", "fallback", "format",
                  "delete", "final", "error_reply"}
    \/ \E i \in DOMAIN trace[h] : trace[h][i].op # "verify_signature"

\* C19: no step removes an id from processed_events; a step that adds one is
\* the insert of a handler whose request is an event_callback that passed the
\* signature verification and that has evaluated no trigger and made no Slack
\* or backend call; so a handler at or past the trigger test, or with such a
\* call behind it, has its id in the registry, and so has every id a handler
\* ever passed the duplicate test with (once its insert, the next statement,
\* has run), whatever became of that handler.
C19_RegistryOnlyGrows ==
    [][/\ processed_events \subseteq processed_events'
       /\ \A id \in processed_events' \ processed_events :
             \E h \in Handlers :
                 /\ pc[h] = "dedupe_add" /\ pc'[h] = "trigger"
                 /\ EventId(h) = id
                 /\ req[h].body.kind = "event_callback"
                 /\ trace[h] = Verified
                 /\ ~PastInsert(h)
       /\ \A h \in Handlers : PastInsert(h)' => EventId(h)' \in processed_events'
       /\ \A id \in EventIds :
             accepts'[id] > 0 =>
                 \/ id \in processed_events'
                 \/ \E h \in Handlers : pc'[h] = "dedupe_add" /\ EventId(h)' = id
      ]_vars

\* The redelivery of an event whose first handling left nothing in Slack is
\* dropped as a duplicate.
C19_Witness ==
    \E h \in Handlers :
        /\ Ended(h) /\ exit[h] = "duplicate"
        /\ req[h].body.etype = "app_mention"
        /\ extract_query_from_mention(req[h].body.text) # <<>>
        /\ accepts[EventId(h)] = 1
        /\ outbox[EventId(h)] = <<>>

\* Handler h serves a verified event_callback without event_id and has made
\* the duplicate test.
AbsentIdChecked(h) ==
    /\ req[h].body.kind = "event_callback"
    /\ EventId(h) = None
    /\ trace[h] # <<>> /\ trace[h][1] = Effect("verify_signature", TRUE)
    /\ pc[h] \notin {"dispatch", "dedupe_check"}

\* C20: events without event_id share the registry entry None: over the process
\* lifetime at most one of them passes the duplicate test, and it puts None in
\* the registry; every other one is dropped there: answered 200 ok with no
\* registry insert, no Slack call and no backend query of its own.
C20_AbsentIdSharesEntry ==
    /\ accepts[None] <= 1
    /\ \A h \in Handlers :
          AbsentIdChecked(h) =>
              IF Did(h, "registry_add") \/ pc[h] = "dedupe_add"
              THEN /\ accepts[None] = 1
                   /\ Did(h, "registry_add") => None \in processed_events
              ELSE /\ None \in processed_events
                   /\ trace[h] = Verified
                   /\ pc[h] = "done" /\ exit[h] = "duplicate"
                   /\ status[h] = 200 /\ response[h] = OkResponse

\* A mention with a question and no event_id was dropped as a duplicate although
\* Slack never accepted a call for an event without id.
C20_Witness ==
    \E h \in Handlers :
        /\ AbsentIdChecked(h)
        /\ Ended(h) /\ exit[h] = "duplicate"
        /\ req[h].body.etype = "app_mention"
        /\ ChannelAllowed(req[h].body.channel)
        /\ extract_query_from_mention(req[h].body.text) # <<>>
        /\ outbox[None] = <<>>
====
